---- MODULE Spec2Model ----
(***************************************************************************)
(* Library engine of GameOrganizer.py: the PC game records, the persisted  *)
(* collection and the menu machine of GameOrganizerApp.                    *)
(*                                                                         *)
(* A step of the model is one read of user input by a menu method together *)
(* with everything the method does up to the next read (or up to the end   *)
(* of the process).  Free-text prompts (titles, paths) are read inside the *)
(* step of the menu token that leads to them.                              *)
(*                                                                         *)
(* Strings that the program inspects (titles, cover-art paths) are         *)
(* sequences of code points; strings it only stores are TLA+ strings.      *)
(***************************************************************************)
EXTENDS Integers, Sequences, FiniteSets, TLC

VARIABLES
    pc_games_list,        \* GameOrganizerApp._pc_games_list
    selected_game_index,  \* GameOrganizerApp._selected_game_index
    storage,              \* the file pc_games_list.pkl
    pc,                   \* the menu method blocked in input(), or how the process ended
    config_index,         \* the config_index / index argument of the blocked method
    error,                \* kind of the uncaught exception that ended the process
    last,                 \* the method that changed the list last
    budget,               \* how many adds and in-place changes this run may make
    num_loaded,           \* records loaded at start-up
    num_adds,             \* completed new_pc_game flows
    num_deletes,          \* confirmed delete_pc_game flows
    num_changes,          \* in-place changes of records made so far
    launched,             \* the commands handed to subprocess.Popen that were spawned
    today,                \* date.today() formatted by strftime("%m/%d/%y")
    image_files,          \* the files download_cover_art has written under ./images
    exited                \* positions in launched of the processes that have ended

vars == <<pc_games_list, selected_game_index, storage, pc, config_index, error,
          last, budget, num_loaded, num_adds, num_deletes, num_changes,
          launched, today, image_files, exited>>

--------------------------------------------------------------------------
(* Bounds of the model *)

\* new_pc_game flows in one run of the program
MaxAdds == 2
\* in-place changes of records (edits, launches, enrichment, configurations) in one run
MaxChanges == 2
\* length of the titles for which a cover art is looked up
MaxTitleLen == 3

--------------------------------------------------------------------------
(* Input alphabets *)

\* "" , "B", "a" as code points: 'B' (66) sorts before 'a' (97)
TitleInputs == { <<>>, <<66>>, <<97>> }
SourceInputs == { "Steam", "GOG" }
PathInputs == { "p1", "p2" }
FirstDay == "11/01/26"
NextDay == "11/02/26"
Dates == { FirstDay, NextDay }
DescriptionReplies == { "", "text" }

\* One line typed at a menu
Tokens == { "-1", "0", "1", "2", "3", "4", "5", "6", "7", "8",
            "A", "a", "B", "b", "D", "d", "E", "e", "H", "h",
            "N", "n", "R", "r", "Y", "y", "x", "" }

IntTokens == { "-1", "0", "1", "2", "3", "4", "5", "6", "7", "8" }

\* str.lower()
Lower(s) ==
    CASE s = "A" -> "a" [] s = "B" -> "b" [] s = "D" -> "d" [] s = "E" -> "e"
      [] s = "H" -> "h" [] s = "N" -> "n" [] s = "R" -> "r" [] s = "Y" -> "y"
      [] OTHER -> s

\* int(): defined on IntTokens, ValueError elsewhere
ToInt(s) ==
    CASE s = "-1" -> -1 [] s = "0" -> 0 [] s = "1" -> 1 [] s = "2" -> 2
      [] s = "3" -> 3 [] s = "4" -> 4 [] s = "5" -> 5 [] s = "6" -> 6
      [] s = "7" -> 7 [] s = "8" -> 8

--------------------------------------------------------------------------
(* Python list indexing *)

\* seq[i] is defined for -len <= i < len
PyValid(i, n) == -n <= i /\ i < n

\* 1-based position that Python index i denotes in a list of length n
PyPos(i, n) == IF i >= 0 THEN i + 1 ELSE n + i + 1

\* a slip: seq.pop(), which removes the last element whatever i is
PyDelLast(seq, i) == SubSeq(seq, 1, Len(seq) - 1)

\* a slip: del seq[i:], which also removes everything after position i
PyDelFrom(seq, i) == SubSeq(seq, 1, PyPos(i, Len(seq)) - 1)

\* del seq[i]
PyDel(seq, i) ==
    LET p == PyPos(i, Len(seq))
    IN  [k \in 1..(Len(seq) - 1) |-> IF k < p THEN seq[k] ELSE seq[k + 1]]

--------------------------------------------------------------------------
(* PCGameEntry *)

\* a slip: a new entry counts as played on the day it is created
EntryPlayedWhenCreated(title, source, application_path) ==
    [ title |-> title,
      source |-> source,
      application_path |-> application_path,
      last_played_date |-> FirstDay,
      description |-> "",
      cover_art_file |-> <<>>,
      alternate_configs |-> <<>> ]

PCGameEntry(title, source, application_path) ==
    [ title |-> title,
      source |-> source,
      application_path |-> application_path,
      last_played_date |-> "",
      description |-> "",
      cover_art_file |-> <<>>,
      alternate_configs |-> <<>> ]

add_alternate_config(game, config_dictionary) ==
    [game EXCEPT !.alternate_configs = Append(@, config_dictionary)]

update_alternate_config(game, index, config_dictionary) ==
    [game EXCEPT !.alternate_configs =
        [@ EXCEPT ![PyPos(index, Len(@))] = config_dictionary]]

delete_alternate_config(game, index) ==
    [game EXCEPT !.alternate_configs = PyDel(@, index)]

dump_pc_game(game) ==
    << game.title, game.source, game.application_path, game.last_played_date,
       game.description, game.cover_art_file, game.alternate_configs >>

\* a slip: the alternate configurations are not restored
RebuildWithoutConfigs(attributes) ==
    [ PCGameEntry(attributes[1], attributes[2], attributes[3]) EXCEPT
        !.last_played_date = attributes[4],
        !.description = attributes[5],
        !.cover_art_file = attributes[6] ]

rebuild_pc_game_entry(attributes) ==
    [ PCGameEntry(attributes[1], attributes[2], attributes[3]) EXCEPT
        !.last_played_date = attributes[4],
        !.description = attributes[5],
        !.cover_art_file = attributes[6],
        !.alternate_configs = attributes[7] ]

--------------------------------------------------------------------------
(* Persistence *)

NoFile == [ state |-> "absent", data |-> <<>> ]

\* what save_pc_games_list writes when it succeeds
Pickled(games) ==
    [ state |-> "saved", data |-> [k \in 1..Len(games) |-> dump_pc_game(games[k])] ]

\* the file after a write that failed part-way: opened with 'wb', so cut short
Truncated == [ state |-> "truncated", data |-> <<>> ]

\* a slip: each rebuilt record is put in front of the ones rebuilt before it
LoadPcGamesReversed(file) ==
    IF file.state = "saved"
      THEN [k \in 1..Len(file.data) |->
               rebuild_pc_game_entry(file.data[Len(file.data) + 1 - k])]
      ELSE <<>>

\* GameOrganizerApp.__init__: the list built from the file, or the empty list
LoadPcGames(file) ==
    IF file.state = "saved"
      THEN [k \in 1..Len(file.data) |-> rebuild_pc_game_entry(file.data[k])]
      ELSE <<>>

--------------------------------------------------------------------------
(* Ordering of titles and sort_pc_games *)

\* Python's str < str: by code point, a proper prefix first
RECURSIVE StrLess(_, _)
StrLess(a, b) ==
    IF b = <<>> THEN FALSE
    ELSE IF a = <<>> THEN TRUE
    ELSE IF Head(a) < Head(b) THEN TRUE
    ELSE IF Head(a) > Head(b) THEN FALSE
    ELSE StrLess(Tail(a), Tail(b))

get_pc_game_entry_title(game) == game.title

\* a slip: an unstable sort, which puts a game before the games of its title
RECURSIVE InsertBeforeEqualTitles(_, _)
InsertBeforeEqualTitles(sorted, game) ==
    IF sorted = <<>> THEN <<game>>
    ELSE IF ~StrLess(get_pc_game_entry_title(Head(sorted)), get_pc_game_entry_title(game))
           THEN <<game>> \o sorted
           ELSE <<Head(sorted)>> \o InsertBeforeEqualTitles(Tail(sorted), game)

\* insert game after every element whose key is not greater than its own
RECURSIVE InsertByTitle(_, _)
InsertByTitle(sorted, game) ==
    IF sorted = <<>> THEN <<game>>
    ELSE IF StrLess(get_pc_game_entry_title(game), get_pc_game_entry_title(Head(sorted)))
           THEN <<game>> \o sorted
           ELSE <<Head(sorted)>> \o InsertByTitle(Tail(sorted), game)

\* list.sort(key=...): stable; for short lists an insertion sort, left to right
RECURSIVE SortFrom(_, _)
SortFrom(done, rest) ==
    IF rest = <<>> THEN done
    ELSE SortFrom(InsertByTitle(done, Head(rest)), Tail(rest))

sort_pc_games(games) == SortFrom(<<>>, games)

add_pc_game(games, game_entry_object) == Append(games, game_entry_object)

--------------------------------------------------------------------------
(* Enrichment: download_cover_art *)

\* "./images/" and ".png"
ImagesDir == << 46, 47, 105, 109, 97, 103, 101, 115, 47 >>
PngExt == << 46, 112, 110, 103 >>

\* a slip: str.replace(" ", "_", 1), which replaces the first space only
ReplaceFirstSpace(s) ==
    [k \in 1..Len(s) |->
        IF s[k] = 32 /\ (\A j \in 1..(k - 1) : s[j] # 32) THEN 95 ELSE s[k]]

\* str.replace(" ", "_")
ReplaceSpaces(s) == [k \in 1..Len(s) |-> IF s[k] = 32 THEN 95 ELSE s[k]]

\* the path download_cover_art writes to and returns
download_cover_art(game_name) == ReplaceSpaces(ImagesDir \o game_name \o PngExt)

\* how the two HTTP requests of download_cover_art can end: requests.get
\* raises (no connection, or no usable link in the body of an error response
\* to the search), or the download is answered with the image or with an
\* error response, whose body is written like an image
CoverArtOutcomes == { "ok", "search_fails", "download_fails", "download_error_body" }

\* download_image_response.content
ResponseContent(outcome) == IF outcome = "ok" THEN "image" ELSE "error body"

\* open(output_path, "wb"); file.write(content): the file is made or replaced
WriteFile(files, output_path, content) ==
    { f \in files : f.path # output_path }
        \cup { [path |-> output_path, content |-> content] }

--------------------------------------------------------------------------
(* The menu machine *)

Prompts == { "MainMenu", "AddGameMenu", "PCList", "Details", "EditMenu",
             "DeleteConfirm", "GoBack", "AltList", "AltEditPick", "AltEditMenu",
             "AltDelPick", "AltDelConfirm", "DescConsent", "CoverConsent",
             "CoverDisplay" }

\* "Exit": exit() at the main menu; "Returned": every menu method returned;
\* "Crashed": an exception nobody catches
Ended == { "Exit", "Returned", "Crashed" }

\* menus that print something of the selected game before they read
ShowsGame(menu) == menu \in Prompts \ { "MainMenu", "AddGameMenu", "PCList" }

\* menus that print something of the configuration they were called with
ShowsConfig(menu) == menu \in { "AltEditMenu", "AltDelConfirm" }

SelectedPos == PyPos(selected_game_index, Len(pc_games_list))
SelectedGame == pc_games_list[SelectedPos]
WithSelected(game) == [pc_games_list EXCEPT ![SelectedPos] = game]

KeepCounts == UNCHANGED <<budget, num_loaded, num_adds, num_deletes, num_changes>>

\* one more in-place change of a record, while the run's budget lasts
CountChange ==
    /\ num_changes < budget.changes
    /\ num_changes' = num_changes + 1
    /\ UNCHANGED <<budget, num_loaded, num_adds, num_deletes>>

\* where a call of the menu method ends up: at its input(), or in the
\* IndexError of the subscript it evaluates before it
Arrive(menu, games, sel, cfg) ==
    IF ShowsGame(menu) /\ ~PyValid(sel, Len(games))
      THEN [pc |-> "Crashed", error |-> "IndexError", cfg |-> 0]
    ELSE IF ShowsConfig(menu)
            /\ ~PyValid(cfg, Len(games[PyPos(sel, Len(games))].alternate_configs))
      THEN [pc |-> "Crashed", error |-> "IndexError", cfg |-> 0]
    ELSE [pc |-> menu, error |-> "none", cfg |-> IF ShowsConfig(menu) THEN cfg ELSE 0]

\* call menu with the selection sel; the list is not touched
Goto(menu, sel, cfg) ==
    /\ KeepCounts
    /\ UNCHANGED <<last, launched, exited, today, image_files>>
    /\ UNCHANGED <<pc_games_list, storage>>
    /\ selected_game_index' = sel
    /\ LET a == Arrive(menu, pc_games_list, sel, cfg)
       IN  pc' = a.pc /\ error' = a.error /\ config_index' = a.cfg

\* an exception nobody catches: the process ends with a traceback
Raise(kind) ==
    /\ KeepCounts
    /\ UNCHANGED <<last, launched, exited, today, image_files>>
    /\ UNCHANGED <<pc_games_list, storage, selected_game_index>>
    /\ pc' = "Crashed" /\ error' = kind /\ config_index' = 0

\* an unrecognized token: the method returns, and so does every caller
Return ==
    /\ KeepCounts
    /\ UNCHANGED <<last, launched, exited, today, image_files>>
    /\ UNCHANGED <<pc_games_list, storage, selected_game_index>>
    /\ pc' = "Returned" /\ error' = "none" /\ config_index' = 0

\* a slip: the list is saved once more before the process ends
ExitWithSave ==
    /\ KeepCounts
    /\ UNCHANGED <<last, launched, exited, today, image_files>>
    /\ UNCHANGED <<pc_games_list, selected_game_index>>
    /\ storage' = Pickled(pc_games_list)
    /\ pc' = "Exit" /\ error' = "none" /\ config_index' = 0

\* exit(): SystemExit ends the process with status 0; nothing is written
Exit ==
    /\ KeepCounts
    /\ UNCHANGED <<last, launched, exited, today, image_files>>
    /\ UNCHANGED <<pc_games_list, storage, selected_game_index>>
    /\ pc' = "Exit" /\ error' = "none" /\ config_index' = 0

\* a slip: a change that is not followed by a save
SaveSkipped(games) == storage

\* save_pc_games_list: the new content of the file
save_pc_games_list(games) == Pickled(games)

\* the list has become games; save it, then set the selection and call menu.
\* A save that fails raises OSError out of every caller.
Commit(op, games, menu, sel, cfg) ==
    /\ pc_games_list' = games
    /\ last' = op
    /\ UNCHANGED today
    /\ \/ /\ storage' = save_pc_games_list(games)
          /\ selected_game_index' = sel
          /\ LET a == Arrive(menu, games, sel, cfg)
             IN  pc' = a.pc /\ error' = a.error /\ config_index' = a.cfg
       \/ /\ storage' \in { storage, Truncated }
          /\ UNCHANGED selected_game_index
          /\ pc' = "Crashed" /\ error' = "OSError" /\ config_index' = 0

\* an in-place change of the selected record: the record becomes game
Mutate(op, game, menu, cfg) ==
    /\ CountChange
    /\ UNCHANGED <<launched, exited>>
    /\ Commit(op, WithSelected(game), menu, selected_game_index, cfg)

\* an in-place change made by a method that writes no image file
Change(op, game, menu, cfg) ==
    /\ UNCHANGED image_files
    /\ Mutate(op, game, menu, cfg)

\* set_last_played_date: the date of the day, as strftime formats it
set_last_played_date(game, date) == [game EXCEPT !.last_played_date = date]

\* a slip: the method waits for the program it spawned to end (Popen.wait)
LaunchAndWait(op, raw_string) ==
    /\ CountChange
    /\ launched' = Append(launched, raw_string)
    /\ exited' = exited \cup { Len(launched') }
    /\ UNCHANGED image_files
    /\ Commit(op, WithSelected(set_last_played_date(SelectedGame, today)),
              "GoBack", selected_game_index, 0)

\* a slip: the first record of the list is stamped, not the selected one
LaunchStampsFirst(op, raw_string) ==
    /\ CountChange
    /\ launched' = Append(launched, raw_string)
    /\ UNCHANGED <<image_files, exited>>
    /\ Commit(op, [pc_games_list EXCEPT ![1] = set_last_played_date(@, today)],
              "GoBack", selected_game_index, 0)

\* subprocess.Popen(raw_string) spawned the command and returned the Popen
\* object, which is dropped: nothing waits for the program or polls it. Then
\* the selected record is stamped with the date, the list is saved and
\* go_back_menu_pc is called
Launch(op, raw_string) ==
    /\ CountChange
    /\ launched' = Append(launched, raw_string)
    /\ UNCHANGED <<image_files, exited>>
    /\ Commit(op, WithSelected(set_last_played_date(SelectedGame, today)),
              "GoBack", selected_game_index, 0)

NoSelection == -1

\* the if-chain of top_level_menu for the token read
TopLevelChoice(choice_string) ==
    CASE choice_string = "1" -> Goto("PCList", selected_game_index, 0)
      [] choice_string = "2" -> Return    \* view_console_games does nothing
      [] choice_string = "3" -> Goto("AddGameMenu", selected_game_index, 0)
      [] choice_string = "4" -> Exit
      [] OTHER -> Return

top_level_menu ==
    /\ pc = "MainMenu"
    /\ \E choice_string \in Tokens : TopLevelChoice(choice_string)

\* the if-chain of add_new_game_menu for a token other than '1'
AddGameChoice(choice_string) ==
    CASE choice_string = "2" -> Return    \* new_console_game does nothing
      [] choice_string = "3" -> Goto("MainMenu", selected_game_index, 0)
      [] OTHER -> Return

add_new_game_menu ==
    /\ pc = "AddGameMenu"
    /\ \E choice_string \in Tokens \ { "1" } : AddGameChoice(choice_string)

\* a slip: the application path is not registered as a configuration
NewGameWithoutConfig(game_title, source_platform, application_path) ==
    PCGameEntry(game_title, source_platform, application_path)

\* the record new_pc_game builds from the three answers
NewGame(game_title, source_platform, application_path) ==
    add_alternate_config(PCGameEntry(game_title, source_platform, application_path),
                         [title |-> game_title, path |-> application_path])

\* token '1' of add_new_game_menu
new_pc_game ==
    /\ pc = "AddGameMenu"
    /\ num_adds < budget.adds
    /\ num_adds' = num_adds + 1
    /\ UNCHANGED <<budget, num_loaded, num_deletes, num_changes, launched, exited,
                   image_files>>
    /\ \E game_title \in TitleInputs, source_platform \in SourceInputs,
          application_path \in PathInputs :
        Commit("new_pc_game", sort_pc_games(add_pc_game(pc_games_list,
                    NewGame(game_title, source_platform, application_path))),
               "PCList", selected_game_index, 0)

view_pc_games ==
    /\ pc = "PCList"
    /\ \E choice_string \in Tokens \ { "R", "r" } :
        IF Lower(choice_string) = "b"
          THEN Goto("MainMenu", NoSelection, 0)
        ELSE IF choice_string \in IntTokens
          THEN Goto("Details", ToInt(choice_string) - 1, 0)
        ELSE Raise("ValueError")

\* token 'R' of view_pc_games; randint(0, -1) raises ValueError
\* a slip: the draw is taken from 0..list_length, both ends included
RandomUpToLength ==
    /\ pc = "PCList"
    /\ LET list_length == Len(pc_games_list)
       IN  \E random_game_index \in 0..list_length :
              Goto("Details", random_game_index, 0)

select_random_pc_game ==
    /\ pc = "PCList"
    /\ LET list_length == Len(pc_games_list)
       IN  IF list_length = 0
             THEN Raise("ValueError")
             ELSE \E random_game_index \in 0..(list_length - 1) :
                    Goto("Details", random_game_index, 0)

\* a slip: token '4' offers the download whether a description is stored or not
DetailsAlwaysOffersDescription ==
    /\ pc = "Details"
    /\ \E choice_string \in Tokens \ { "1" } :
        CASE choice_string = "2" -> Goto("AltList", selected_game_index, 0)
          [] choice_string = "3" -> Goto("GoBack", selected_game_index, 0)
          [] choice_string = "4" -> Goto("DescConsent", selected_game_index, 0)
          [] choice_string = "5" ->
                IF SelectedGame.cover_art_file # <<>>
                  THEN Goto("CoverDisplay", selected_game_index, 0)
                  ELSE Goto("CoverConsent", selected_game_index, 0)
          [] choice_string = "6" -> Goto("EditMenu", selected_game_index, 0)
          [] choice_string = "7" -> Goto("DeleteConfirm", selected_game_index, 0)
          [] choice_string = "8" -> Goto("PCList", NoSelection, 0)
          [] OTHER -> Return

\* the if-chain of view_pc_game_details for a token other than '1'
DetailsChoice(choice_string) ==
    CASE choice_string = "2" -> Goto("AltList", selected_game_index, 0)
      [] choice_string = "3" -> Goto("GoBack", selected_game_index, 0)
      [] choice_string = "4" ->
            IF SelectedGame.description # ""
              THEN Goto("GoBack", selected_game_index, 0)
              ELSE Goto("DescConsent", selected_game_index, 0)
      [] choice_string = "5" ->
            IF SelectedGame.cover_art_file # <<>>
              THEN Goto("CoverDisplay", selected_game_index, 0)
              ELSE Goto("CoverConsent", selected_game_index, 0)
      [] choice_string = "6" -> Goto("EditMenu", selected_game_index, 0)
      [] choice_string = "7" -> Goto("DeleteConfirm", selected_game_index, 0)
      [] choice_string = "8" -> Goto("PCList", NoSelection, 0)
      [] OTHER -> Return

view_pc_game_details ==
    /\ pc = "Details"
    /\ \E choice_string \in Tokens \ { "1" } : DetailsChoice(choice_string)

\* token '1' of view_pc_game_details; Popen raises when the spawn fails
\* a slip: the default launch takes the path of alternate configuration #1
RunFirstConfigAsDefault ==
    /\ pc = "Details"
    /\ LET raw_string == SelectedGame.alternate_configs[1].path
       IN  \/ Raise("OSError")
           \/ Launch("run_default_config_pc", raw_string)

\* a slip: the date is stamped before the command is spawned
RunDefaultStampsBeforeSpawn ==
    /\ pc = "Details"
    /\ LET raw_string == SelectedGame.application_path
       IN  \/ /\ pc_games_list' = WithSelected(set_last_played_date(SelectedGame, today))
              /\ pc' = "Crashed" /\ error' = "OSError" /\ config_index' = 0
              /\ KeepCounts
              /\ UNCHANGED <<last, launched, exited, today, image_files, storage,
                             selected_game_index>>
           \/ Launch("run_default_config_pc", raw_string)

run_default_config_pc ==
    /\ pc = "Details"
    /\ LET raw_string == SelectedGame.application_path
       IN  \/ Raise("OSError")
           \/ Launch("run_default_config_pc", raw_string)

\* the if-chain of edit_pc_game for a token other than '1', '2', '3'
EditChoice(choice_string) ==
    IF choice_string = "4"
      THEN Goto("Details", selected_game_index, 0)
      ELSE Return

edit_pc_game ==
    /\ pc = "EditMenu"
    /\ \E choice_string \in Tokens \ { "1", "2", "3" } : EditChoice(choice_string)

\* token '1' of edit_pc_game
\* a slip: the list is sorted again after the title was changed
EditTitleThenSort ==
    /\ pc = "EditMenu"
    /\ \E new_title \in TitleInputs :
        /\ CountChange
        /\ UNCHANGED <<launched, exited, image_files>>
        /\ Commit("edit_title_pc",
                  sort_pc_games(WithSelected([SelectedGame EXCEPT !.title = new_title])),
                  "EditMenu", selected_game_index, 0)

\* a slip: the new title comes with a fresh description and cover art
EditTitleDropsEnrichment ==
    /\ pc = "EditMenu"
    /\ \E new_title \in TitleInputs :
        Change("edit_title_pc", [SelectedGame EXCEPT !.title = new_title,
                                                     !.description = "",
                                                     !.cover_art_file = <<>>],
               "EditMenu", 0)

edit_title_pc ==
    /\ pc = "EditMenu"
    /\ \E new_title \in TitleInputs :
        Change("edit_title_pc", [SelectedGame EXCEPT !.title = new_title],
               "EditMenu", 0)

\* token '2' of edit_pc_game
edit_source_platform_pc ==
    /\ pc = "EditMenu"
    /\ \E new_source_platform \in SourceInputs :
        Change("edit_source_platform_pc", [SelectedGame EXCEPT !.source = new_source_platform],
               "EditMenu", 0)

\* a slip: the new path is also written into the first configuration
EditPathAndFirstConfig ==
    /\ pc = "EditMenu"
    /\ \E new_application_path \in PathInputs :
        Change("edit_application_path_pc",
               [SelectedGame EXCEPT
                  !.application_path = new_application_path,
                  !.alternate_configs =
                      IF @ = <<>> THEN @
                      ELSE [@ EXCEPT ![1] = [title |-> @.title, path |-> new_application_path]]],
               "EditMenu", 0)

\* token '3' of edit_pc_game
edit_application_path_pc ==
    /\ pc = "EditMenu"
    /\ \E new_application_path \in PathInputs :
        Change("edit_application_path_pc", [SelectedGame EXCEPT !.application_path = new_application_path],
               "EditMenu", 0)

\* a slip: the selection is not reset after the delete
DeleteKeepsSelection ==
    /\ pc = "DeleteConfirm"
    /\ \E choice_string \in Tokens :
        IF Lower(choice_string) = "y"
          THEN /\ Commit("delete_pc_game", PyDel(pc_games_list, selected_game_index),
                         "PCList", selected_game_index, 0)
               /\ num_deletes' = num_deletes + 1
               /\ UNCHANGED <<budget, num_loaded, num_adds, num_changes, launched,
                              exited, image_files>>
        ELSE IF Lower(choice_string) = "n"
          THEN Goto("Details", selected_game_index, 0)
        ELSE Return

\* a slip: the answer is not looked at, the game is deleted
DeleteWhateverTheAnswer(choice_string) ==
    /\ Commit("delete_pc_game", PyDel(pc_games_list, selected_game_index),
              "PCList", NoSelection, 0)
    /\ num_deletes' = num_deletes + 1
    /\ UNCHANGED <<budget, num_loaded, num_adds, num_changes, launched,
                   exited, image_files>>

\* the if-chain of delete_pc_game for the answer read
DeleteChoice(choice_string) ==
    IF Lower(choice_string) = "y"
      THEN /\ Commit("delete_pc_game", PyDel(pc_games_list, selected_game_index),
                     "PCList", NoSelection, 0)
           /\ num_deletes' = num_deletes + 1
           /\ UNCHANGED <<budget, num_loaded, num_adds, num_changes, launched,
                          exited, image_files>>
    ELSE IF Lower(choice_string) = "n"
      THEN Goto("Details", selected_game_index, 0)
    ELSE Return

delete_pc_game ==
    /\ pc = "DeleteConfirm"
    /\ \E choice_string \in Tokens : DeleteChoice(choice_string)

\* a slip: token '1' shows the details of the first game of the list
GoBackToFirstGame ==
    /\ pc = "GoBack"
    /\ \E choice_string \in Tokens :
        CASE choice_string = "1" -> Goto("Details", 0, 0)
          [] choice_string = "2" -> Goto("PCList", NoSelection, 0)
          [] choice_string = "3" -> Goto("MainMenu", NoSelection, 0)
          [] OTHER -> Return

\* a slip: after an unrecognized token the menu is shown again
GoBackAsksAgain(choice_string) ==
    CASE choice_string = "1" -> Goto("Details", selected_game_index, 0)
      [] choice_string = "2" -> Goto("PCList", NoSelection, 0)
      [] choice_string = "3" -> Goto("MainMenu", NoSelection, 0)
      [] OTHER -> Goto("GoBack", selected_game_index, 0)

\* the if-chain of go_back_menu_pc for the token read
GoBackChoice(choice_string) ==
    CASE choice_string = "1" -> Goto("Details", selected_game_index, 0)
      [] choice_string = "2" -> Goto("PCList", NoSelection, 0)
      [] choice_string = "3" -> Goto("MainMenu", NoSelection, 0)
      [] OTHER -> Return

go_back_menu_pc ==
    /\ pc = "GoBack"
    /\ \E choice_string \in Tokens : GoBackChoice(choice_string)

view_alternate_configs_pc ==
    /\ pc = "AltList"
    /\ \E choice_string \in Tokens \ ({ "A", "a" } \cup IntTokens) :
        CASE Lower(choice_string) = "e" -> Goto("AltEditPick", selected_game_index, 0)
          [] Lower(choice_string) = "d" -> Goto("AltDelPick", selected_game_index, 0)
          [] Lower(choice_string) = "h" -> Goto("AltList", selected_game_index, 0)
          [] Lower(choice_string) = "b" -> Goto("Details", selected_game_index, 0)
          [] OTHER -> Raise("ValueError")

\* the else-branch of view_alternate_configs_pc for a numeric token:
\* run_alternate_config_pc(int(choice_string) - 1), then go_back_menu_pc
RunAlternateChoice(choice_string) ==
    LET selected_config_index == ToInt(choice_string) - 1
    IN  IF ~PyValid(selected_config_index, Len(SelectedGame.alternate_configs))
          THEN Raise("IndexError")
          ELSE LET raw_string ==
                       SelectedGame.alternate_configs[
                           PyPos(selected_config_index,
                                 Len(SelectedGame.alternate_configs))].path
               IN  \/ Raise("OSError")
                   \/ Launch("run_alternate_config_pc", raw_string)

\* a numeric token of view_alternate_configs_pc
run_alternate_config_pc ==
    /\ pc = "AltList"
    /\ \E choice_string \in IntTokens : RunAlternateChoice(choice_string)

\* token 'A' of view_alternate_configs_pc
new_alternate_config_pc ==
    /\ pc = "AltList"
    /\ \E config_title \in TitleInputs, application_path \in PathInputs :
        Change("new_alternate_config_pc", add_alternate_config(SelectedGame,
                    [title |-> config_title, path |-> application_path]),
               "AltList", 0)

edit_alternate_config_pc_menu_1 ==
    /\ pc = "AltEditPick"
    /\ \E choice_string \in Tokens :
        IF Lower(choice_string) = "b"
          THEN Goto("AltList", selected_game_index, 0)
        ELSE IF choice_string \in IntTokens
          THEN Goto("AltEditMenu", selected_game_index, ToInt(choice_string) - 1)
        ELSE Raise("ValueError")

\* the if-chain of edit_alternate_config_pc_menu_2 for a token other than
\* '1' and '2'
EditConfigChoice(choice_string) ==
    IF choice_string = "3"
      THEN Goto("AltEditPick", selected_game_index, 0)
      ELSE Return

edit_alternate_config_pc_menu_2 ==
    /\ pc = "AltEditMenu"
    /\ \E choice_string \in Tokens \ { "1", "2" } : EditConfigChoice(choice_string)

SelectedConfig ==
    SelectedGame.alternate_configs[PyPos(config_index, Len(SelectedGame.alternate_configs))]

\* token '1' of edit_alternate_config_pc_menu_2
edit_config_title_pc ==
    /\ pc = "AltEditMenu"
    /\ \E new_title \in TitleInputs :
        LET new_config == [title |-> new_title, path |-> SelectedConfig.path]
        IN  Change("edit_config_title_pc", update_alternate_config(SelectedGame, config_index, new_config),
                   "AltEditMenu", config_index)

\* token '2' of edit_alternate_config_pc_menu_2
edit_config_application_path_pc ==
    /\ pc = "AltEditMenu"
    /\ \E new_application_path \in PathInputs :
        LET new_config == [title |-> SelectedConfig.title, path |-> new_application_path]
        IN  Change("edit_config_application_path_pc", update_alternate_config(SelectedGame, config_index, new_config),
                   "AltEditMenu", config_index)

delete_alternate_config_pc_menu ==
    /\ pc = "AltDelPick"
    /\ \E choice_string \in Tokens :
        IF Lower(choice_string) = "b"
          THEN Goto("AltList", selected_game_index, 0)
        ELSE IF choice_string \in IntTokens
          THEN Goto("AltDelConfirm", selected_game_index, ToInt(choice_string) - 1)
        ELSE Raise("ValueError")

\* the if-chain of delete_alternate_config_pc for the answer read
DeleteConfigChoice(choice_string) ==
    IF Lower(choice_string) = "y"
      THEN Change("delete_alternate_config_pc",
                  delete_alternate_config(SelectedGame, config_index), "AltList", 0)
    ELSE IF Lower(choice_string) = "n"
      THEN Goto("AltList", selected_game_index, 0)
    ELSE Return

delete_alternate_config_pc ==
    /\ pc = "AltDelConfirm"
    /\ \E choice_string \in Tokens : DeleteConfigChoice(choice_string)

\* the consent prompt of view_game_description_pc; connect/recv may raise
DescriptionChoice(choice_string) ==
    IF Lower(choice_string) = "y"
      THEN \/ Raise("ConnectionError")
           \/ \E description \in DescriptionReplies :
                Change("view_game_description_pc",
                       [SelectedGame EXCEPT !.description = description], "GoBack", 0)
    ELSE IF Lower(choice_string) = "n"
      THEN Goto("Details", selected_game_index, 0)
    ELSE Return

view_game_description_pc ==
    /\ pc = "DescConsent"
    /\ \E choice_string \in Tokens : DescriptionChoice(choice_string)

\* the consent prompt of view_cover_art_pc; requests.get may raise, and an
\* error response to the download is written to the file like an image
CoverArtChoice(choice_string) ==
    IF Lower(choice_string) = "y"
      THEN \E outcome \in CoverArtOutcomes :
             IF outcome \in { "search_fails", "download_fails" }
               THEN Raise("RequestException")
               ELSE LET file_path == download_cover_art(SelectedGame.title)
                    IN  /\ image_files' = WriteFile(image_files, file_path,
                                                    ResponseContent(outcome))
                        /\ Mutate("view_cover_art_pc", [SelectedGame EXCEPT
                                               !.cover_art_file = file_path],
                                  "CoverDisplay", 0)
    ELSE IF Lower(choice_string) = "n"
      THEN Goto("Details", selected_game_index, 0)
    ELSE Return

view_cover_art_pc ==
    /\ pc = "CoverConsent"
    /\ \E choice_string \in Tokens : CoverArtChoice(choice_string)

\* the if-chain of display_cover_art_pc for the token read
CoverDisplayChoice(choice_string) ==
    IF choice_string \in { "1", "2" }
      THEN Goto("Details", selected_game_index, 0)
      ELSE Return

display_cover_art_pc ==
    /\ pc = "CoverDisplay"
    /\ \E choice_string \in Tokens : CoverDisplayChoice(choice_string)

--------------------------------------------------------------------------
(* The process *)

\* library files left by earlier runs: one game as it was added, and two
\* games that were both renamed after they were added (the list is sorted
\* only when a game is added)
OneGameFile == Pickled(<< NewGame(<<97>>, "Steam", "p1") >>)

TwoGamesFile ==
    Pickled(<< [NewGame(<<66>>, "Steam", "p1") EXCEPT !.title = <<97>>],
               [NewGame(<<97>>, "GOG", "p2") EXCEPT !.title = <<66>>] >>)

\* the runs explored: the file found at start-up, and how many games the
\* user adds and how many in-place changes the user makes at most
Sessions ==
    { [file |-> NoFile, adds |-> MaxAdds, changes |-> 0],
      [file |-> OneGameFile, adds |-> 0, changes |-> MaxChanges],
      [file |-> OneGameFile, adds |-> 1, changes |-> 1],
      [file |-> TwoGamesFile, adds |-> 1, changes |-> 0] }

\* GameOrganizerApp.__init__ followed by game_organizer
Init ==
    \E session \in Sessions :
        /\ storage = session.file
        /\ budget = [adds |-> session.adds, changes |-> session.changes]
        /\ pc_games_list = LoadPcGames(storage)
        /\ selected_game_index = -1
        /\ pc = "MainMenu"
        /\ config_index = 0
        /\ error = "none"
        /\ last = "__init__"
        /\ num_loaded = Len(pc_games_list)
        /\ num_adds = 0
        /\ num_deletes = 0
        /\ num_changes = 0
        /\ launched = <<>>
        /\ exited = {}
        /\ image_files = {}
        /\ today = FirstDay

\* the calendar day ends while the program waits in input()
DayPasses ==
    /\ pc \in Prompts
    /\ today = FirstDay
    /\ today' = NextDay
    /\ UNCHANGED <<pc_games_list, selected_game_index, storage, pc, config_index,
                   error, last, budget, num_loaded, num_adds, num_deletes,
                   num_changes, launched, exited, image_files>>

\* one read of a token by the menu method that is waiting for it
MenuStep ==
    \/ top_level_menu
    \/ add_new_game_menu
    \/ new_pc_game
    \/ view_pc_games
    \/ select_random_pc_game
    \/ view_pc_game_details
    \/ run_default_config_pc
    \/ edit_pc_game
    \/ edit_title_pc
    \/ edit_source_platform_pc
    \/ edit_application_path_pc
    \/ delete_pc_game
    \/ go_back_menu_pc
    \/ view_alternate_configs_pc
    \/ run_alternate_config_pc
    \/ new_alternate_config_pc
    \/ edit_alternate_config_pc_menu_1
    \/ edit_alternate_config_pc_menu_2
    \/ edit_config_title_pc
    \/ edit_config_application_path_pc
    \/ delete_alternate_config_pc_menu
    \/ delete_alternate_config_pc
    \/ view_game_description_pc
    \/ view_cover_art_pc
    \/ display_cover_art_pc

Next ==
    \/ MenuStep
    \/ DayPasses

Spec == Init /\ [][Next]_vars

\* the menu machine alone: the runs that end before the day does
MenuSpec == Init /\ [][MenuStep]_vars

--------------------------------------------------------------------------
(* The organizer together with the programs it has launched *)

\* a program the user launched ends while the organizer waits in input()
ProcessExits ==
    /\ pc \in Prompts
    /\ \E k \in (1..Len(launched)) \ exited : exited' = exited \cup { k }
    /\ UNCHANGED <<pc_games_list, selected_game_index, storage, pc, config_index,
                   error, last, budget, num_loaded, num_adds, num_deletes,
                   num_changes, launched, today, image_files>>

\* the runs that start with the library file of one game, within one day
LaunchInit == Init /\ storage = OneGameFile

LaunchNext ==
    \/ MenuStep
    \/ ProcessExits

LaunchSpec == LaunchInit /\ [][LaunchNext]_vars

--------------------------------------------------------------------------
(* The cover-art lookup for titles with spaces *)

\* space, 'B', 'a'
TitleChars == { 32, 66, 97 }

\* "Red Dead Redemption 2"
RedDeadTitle ==
    << 82, 101, 100, 32, 68, 101, 97, 100, 32, 82, 101, 100, 101, 109, 112, 116,
       105, 111, 110, 32, 50 >>

CoverTitles ==
    UNION { [1..k -> TitleChars] : k \in 0..MaxTitleLen } \cup { RedDeadTitle }

\* a library file with one game has been loaded and the user has asked for
\* the cover art of that game, which has none: tokens '1', '1', '5'
CoverInit ==
    \E game_title \in CoverTitles :
        /\ pc_games_list = << NewGame(game_title, "Steam", "p1") >>
        /\ storage = Pickled(pc_games_list)
        /\ budget = [adds |-> 0, changes |-> 1]
        /\ selected_game_index = 0
        /\ pc = "CoverConsent"
        /\ config_index = 0
        /\ error = "none"
        /\ last = "__init__"
        /\ num_loaded = 1
        /\ num_adds = 0
        /\ num_deletes = 0
        /\ num_changes = 0
        /\ launched = <<>>
        /\ exited = {}
        /\ today = FirstDay
        /\ image_files = {}

CoverNext ==
    \/ view_cover_art_pc
    \/ display_cover_art_pc

CoverSpec == CoverInit /\ [][CoverNext]_vars

--------------------------------------------------------------------------
(* Properties *)

Games == 1..Len(pc_games_list)

\* C1: whenever the engine waits for a menu token, and at Exit, the file holds
\* the serialization of the list in memory; a list that was never changed and
\* never saved is the empty list of a first start, with no file.
C1_StorageMatchesLibrary ==
    pc \in Prompts \cup { "Exit" } =>
        \/ storage = Pickled(pc_games_list)
        \/ storage = NoFile /\ pc_games_list = <<>> /\ last = "__init__"

\* the engine waits at a menu after a change of a loaded record was saved
C1_Witness ==
    /\ pc \in Prompts
    /\ last = "edit_title_pc"
    /\ storage = Pickled(pc_games_list)
    /\ storage # OneGameFile
    /\ num_loaded = 1 /\ num_adds = 0

\* C2: while the engine waits for a token the selected index is the sentinel
\* or an index of the list, 0 <= index < length.
C2_SelectionValid ==
    pc \in Prompts =>
        \/ selected_game_index = NoSelection
        \/ selected_game_index \in 0..(Len(pc_games_list) - 1)

\* C3: at the PC list prompt and at the main menu prompt the selected index
\* is the sentinel.
C3_ListMenusHaveNoSelection ==
    pc \in { "PCList", "MainMenu" } => selected_game_index = NoSelection

\* back at the PC list after a confirmed delete, with games left to choose
C3_Witness ==
    /\ pc = "PCList"
    /\ last = "delete_pc_game"
    /\ num_deletes = 1
    /\ Len(pc_games_list) >= 1
    /\ selected_game_index = NoSelection

\* C4: a step of the delete confirmation with a selected index outside
\* 0 <= i < n leaves the list unchanged.
C4_DeleteOnlyInRange ==
    [][ ( /\ pc = "DeleteConfirm"
          /\ selected_game_index \notin 0..(Len(pc_games_list) - 1) )
        => pc_games_list' = pc_games_list ]_vars

\* C5: a numeric token at the PC list, at the configuration list or at its
\* edit and delete pickers never ends in an IndexError, and it opens a game or
\* a configuration only at an index k - 1 inside [0, length).
C5_OutOfRangeIsUserError ==
    [][ /\ pc \in { "PCList", "AltList", "AltEditPick", "AltDelPick" }
           => error' # "IndexError"
        /\ (pc = "PCList" /\ pc' = "Details")
           => selected_game_index' \in 0..(Len(pc_games_list) - 1)
        /\ (pc \in { "AltEditPick", "AltDelPick" } /\ pc' \in { "AltEditMenu", "AltDelConfirm" })
           => config_index' \in 0..(Len(SelectedGame.alternate_configs) - 1) ]_vars

IsSortedByTitle(games) ==
    \A i, j \in 1..Len(games) :
        i < j => ~StrLess(games[j].title, games[i].title)

TitlesOf(games) == { games[i].title : i \in 1..Len(games) }

\* the games of a list that have the title t, in the order of the list
WithTitle(games, t) == SelectSeq(games, LAMBDA g : g.title = t)

\* C6: the add-game flow leaves the list non-decreasing by title; the games
\* of each title are those of the old list in their old order followed by
\* the new game if it has that title, so nothing is lost or duplicated.
C6_AddSortsStably ==
    [][ (pc = "AddGameMenu" /\ pc_games_list' # pc_games_list) =>
          /\ IsSortedByTitle(pc_games_list')
          /\ Len(pc_games_list') = Len(pc_games_list) + 1
          /\ \E k \in 1..Len(pc_games_list') :
               \A t \in TitlesOf(pc_games_list') \cup TitlesOf(pc_games_list) :
                 WithTitle(pc_games_list', t)
                   = WithTitle(Append(pc_games_list, pc_games_list'[k]), t) ]_vars

\* after an add to a list that was out of order when it was loaded: two games
\* with the same title and different sources stand next to each other
C6_Witness ==
    /\ pc = "PCList"
    /\ last = "new_pc_game"
    /\ num_loaded = 2
    /\ Len(pc_games_list) = 3
    /\ \E i \in 1..2 :
         /\ pc_games_list[i].title = pc_games_list[i + 1].title
         /\ pc_games_list[i].source = "Steam"
         /\ pc_games_list[i + 1].source = "GOG"

\* C7: the number of records is the number loaded at start-up plus the number
\* of completed add-game flows minus the number of confirmed deletes.
C7_RecordCount ==
    Len(pc_games_list) = num_loaded + num_adds - num_deletes

\* games were loaded, added and deleted, and records were changed in place
C7_Witness ==
    /\ num_loaded = 1 /\ num_adds = 1 /\ num_deletes = 1 /\ num_changes = 1
    /\ Len(pc_games_list) = 1

Count(games, g) == Cardinality({ i \in 1..Len(games) : games[i] = g })

\* the same records, each as often
SameRecords(a, b) ==
    /\ Len(a) = Len(b)
    /\ \A i \in 1..Len(a) : Count(a, a[i]) = Count(b, a[i])

\* a record as the add-game flow leaves it
JustCreated(game) ==
    /\ game.alternate_configs
         = << [title |-> game.title, path |-> game.application_path] >>
    /\ game.last_played_date = ""
    /\ game.description = ""
    /\ game.cover_art_file = <<>>

\* C8: the add-game flow adds one record to the records there were; its only
\* alternate configuration is {its title, its application path}, and its
\* last-played date, description and cover-art path are unset.
C8_NewRecordShape ==
    [][ (pc = "AddGameMenu" /\ pc_games_list' # pc_games_list) =>
          \E k \in 1..Len(pc_games_list') :
            /\ JustCreated(pc_games_list'[k])
            /\ SameRecords(PyDel(pc_games_list', k - 1), pc_games_list) ]_vars

\* a game was added to a record that has been launched since it was loaded
C8_Witness ==
    /\ pc = "PCList"
    /\ last = "new_pc_game"
    /\ Len(pc_games_list) = 2
    /\ \E i, j \in Games :
         /\ pc_games_list[i].last_played_date # ""
         /\ JustCreated(pc_games_list[j])

\* C9: every record has an alternate configuration #1, and its path is the
\* record's default application path.
C9_FirstConfigIsDefaultPath ==
    \A i \in Games :
        /\ pc_games_list[i].alternate_configs # <<>>
        /\ pc_games_list[i].alternate_configs[1].path = pc_games_list[i].application_path

C11_SaveLoadRoundTrip ==
    LET loaded == LoadPcGames(save_pc_games_list(pc_games_list))
    IN  /\ Len(loaded) = Len(pc_games_list)
        /\ \A i \in Games : loaded[i] = pc_games_list[i]

\* a saved library with a record that was launched and has a description
C11_Witness ==
    /\ storage.state = "saved"
    /\ LoadPcGames(storage) = pc_games_list
    /\ \E i \in Games :
         /\ pc_games_list[i].last_played_date # ""
         /\ pc_games_list[i].description # ""
         /\ pc_games_list[i].alternate_configs # <<>>

\* C12: a step that spawns a command and reaches the go-back menu is a launch
\* from the Details menu or from the list of alternate configurations; it
\* spawns exactly one command, the application path of the selected record
\* or the path of one of its alternate configurations; it sets the selected
\* record's last played date to the date of the day and changes no other
\* field and no other record; the saved file holds the list with that date;
\* and the selection stays.
C12_LaunchStampsSelected ==
    [][ (launched' # launched /\ pc' = "GoBack") =>
          /\ pc \in { "Details", "AltList" }
          /\ Len(launched') = Len(launched) + 1
          /\ SubSeq(launched', 1, Len(launched)) = launched
          /\ LET raw_string == launched'[Len(launched')]
                 configs == SelectedGame.alternate_configs
             IN  /\ pc = "Details" => raw_string = SelectedGame.application_path
                 /\ pc = "AltList" =>
                        \E j \in 1..Len(configs) : raw_string = configs[j].path
          /\ pc_games_list' =
                [pc_games_list EXCEPT ![SelectedPos].last_played_date = today]
          /\ storage' = Pickled(pc_games_list')
          /\ selected_game_index' = selected_game_index
          /\ today' = today ]_vars

\* the second of two games was launched through an alternate configuration
\* on the second day; the first game has never been played
C12_Witness ==
    /\ pc = "GoBack"
    /\ last = "run_alternate_config_pc"
    /\ Len(launched) = 1
    /\ today = NextDay
    /\ Len(pc_games_list) = 2
    /\ SelectedPos = 2
    /\ pc_games_list[2].last_played_date = NextDay
    /\ pc_games_list[1].last_played_date = ""
    /\ storage = Pickled(pc_games_list)

\* how many records of games have date as their last played date
PlayedOn(games, date) ==
    Cardinality({ i \in 1..Len(games) : games[i].last_played_date = date })

\* C13: while no command has been spawned no record has a last played date;
\* a step that spawns no command leaves every record's date as it was (when
\* a record is added or deleted, no date has more records than before); and
\* a step that spawns a command leaves the date of every record but the
\* selected one as it was.
C13_DateChangesOnlyInLaunch ==
    [][ /\ launched' = <<>> =>
            \A i \in 1..Len(pc_games_list') : pc_games_list'[i].last_played_date = ""
        /\ launched' = launched =>
            /\ Len(pc_games_list') = Len(pc_games_list) =>
                  \A i \in Games :
                      pc_games_list'[i].last_played_date = pc_games_list[i].last_played_date
            /\ Len(pc_games_list') # Len(pc_games_list) =>
                  \A date \in Dates :
                      PlayedOn(pc_games_list', date) <= PlayedOn(pc_games_list, date)
        /\ launched' # launched =>
            /\ Len(pc_games_list') = Len(pc_games_list)
            /\ \A i \in Games \ { SelectedPos } :
                  pc_games_list'[i].last_played_date = pc_games_list[i].last_played_date
      ]_vars

\* a game played on the first day was renamed on the second day and still
\* has the date of the first day
C13_Witness ==
    /\ last = "edit_title_pc"
    /\ today = NextDay
    /\ Len(launched) = 1
    /\ Len(pc_games_list) = 1
    /\ pc_games_list[1].last_played_date = FirstDay

\* C14: a step of the delete confirmation that changes the list, taken with
\* a selected index i in 0..n-1, removes exactly record i: the records before
\* it and after it stay as they were and in their order, and n - 1 remain;
\* unless the save fails, the file holds the new list, the selection is the
\* sentinel and the PC list is shown.
C14_DeleteRemovesSelected ==
    [][ ( /\ pc = "DeleteConfirm"
          /\ selected_game_index \in 0..(Len(pc_games_list) - 1)
          /\ pc_games_list' # pc_games_list ) =>
          LET n == Len(pc_games_list)
              i == selected_game_index
          IN  /\ Len(pc_games_list') = n - 1
              /\ \A k \in 0..(i - 1) : pc_games_list'[k + 1] = pc_games_list[k + 1]
              /\ \A k \in (i + 1)..(n - 1) : pc_games_list'[k] = pc_games_list[k + 1]
              /\ pc' # "Crashed" =>
                    /\ storage' = Pickled(pc_games_list')
                    /\ selected_game_index' = NoSelection
                    /\ pc' = "PCList" ]_vars

\* the first of the two loaded games was deleted: the second one is left,
\* saved, and the PC list is shown with nothing selected
C14_Witness ==
    /\ pc = "PCList"
    /\ last = "delete_pc_game"
    /\ num_loaded = 2 /\ num_deletes = 1 /\ num_adds = 0
    /\ Len(pc_games_list) = 1
    /\ pc_games_list[1].source = "GOG"
    /\ selected_game_index = NoSelection
    /\ storage = Pickled(pc_games_list)

\* C15: token 'R' at the PC list of an empty library does not end the
\* process: the selection stays the sentinel and the list and the file stay
\* as they were.
C15_RandomOnEmptyIsGuarded ==
    [][ (select_random_pc_game /\ pc_games_list = <<>>) =>
          /\ pc' \in Prompts
          /\ error' = "none"
          /\ selected_game_index' = NoSelection
          /\ pc_games_list' = pc_games_list
          /\ storage' = storage ]_vars

\* C16: token 'R' at the PC list of a library of n >= 1 records selects an
\* index in 0..n-1 and shows the Details menu for it, and every index in
\* 0..n-1 can be the one drawn.
C16_RandomPicksValidIndex ==
    /\ [][ (select_random_pc_game /\ pc_games_list # <<>>) =>
              /\ selected_game_index' \in 0..(Len(pc_games_list) - 1)
              /\ pc' = "Details"
              /\ pc_games_list' = pc_games_list
              /\ storage' = storage ]_vars
    /\ [](pc = "PCList" =>
            \A i \in 0..(Len(pc_games_list) - 1) :
                ENABLED (select_random_pc_game /\ selected_game_index' = i))

\* the Details menu of the last of three games
C16_Witness ==
    /\ pc = "Details"
    /\ Len(pc_games_list) = 3
    /\ selected_game_index = 2

\* C17: every record of the library has a non-empty title.
C17_TitlesNonEmpty ==
    \A i \in Games : pc_games_list[i].title # <<>>

\* C18: no step changes a description or a cover-art path that is set: a step
\* that keeps the number of records leaves every set description and every
\* set cover-art path as it was; a step that adds a record keeps every
\* record there was as it was; and after a step that deletes a record every
\* record left is one there was.
C18_EnrichmentIsKept ==
    [][ /\ Len(pc_games_list') = Len(pc_games_list) =>
            \A i \in Games :
                /\ pc_games_list[i].description # "" =>
                      pc_games_list'[i].description = pc_games_list[i].description
                /\ pc_games_list[i].cover_art_file # <<>> =>
                      pc_games_list'[i].cover_art_file = pc_games_list[i].cover_art_file
        /\ Len(pc_games_list') > Len(pc_games_list) =>
            \A i \in Games :
                Count(pc_games_list', pc_games_list[i]) >= Count(pc_games_list, pc_games_list[i])
        /\ Len(pc_games_list') < Len(pc_games_list) =>
            \A j \in 1..Len(pc_games_list') :
                Count(pc_games_list, pc_games_list'[j]) >= Count(pc_games_list', pc_games_list'[j])
      ]_vars

\* the description was downloaded and the game was renamed afterwards
C18_Witness ==
    /\ last = "edit_title_pc"
    /\ num_changes = 2
    /\ Len(pc_games_list) = 1
    /\ pc_games_list[1].description = "text"
    /\ pc_games_list[1].title = <<66>>

\* a step in which the description service or the image service was called:
\* the call failed and ended the process, or its result was stored
EnrichmentCalled ==
    \/ /\ error = "none"
       /\ error' \in { "ConnectionError", "RequestException" }
    \/ /\ num_changes' # num_changes
       /\ last' \in { "view_game_description_pc", "view_cover_art_pc" }

\* C19: a step of the Details menu calls no service; it asks for consent to
\* a download only when the description, or the cover art, of the selected
\* record is unset, and shows the cover-art menu only when the cover art is
\* set; when it leads to a consent prompt, to the cover-art menu or, without
\* a launch, to the go-back menu, the list, the selection and the file stay
\* as they were.  A service is called only in a step of a consent prompt for
\* a field that is unset, and a step from a consent prompt back to the
\* Details menu calls no service and changes nothing.
C19_CachedViewIsPureRead ==
    [][ /\ pc = "Details" =>
            /\ ~EnrichmentCalled
            /\ pc' = "DescConsent" => SelectedGame.description = ""
            /\ pc' = "CoverConsent" => SelectedGame.cover_art_file = <<>>
            /\ pc' = "CoverDisplay" => SelectedGame.cover_art_file # <<>>
            /\ ( \/ pc' \in { "DescConsent", "CoverConsent", "CoverDisplay" }
                 \/ pc' = "GoBack" /\ launched' = launched ) =>
                  UNCHANGED <<pc_games_list, selected_game_index, storage>>
        /\ EnrichmentCalled =>
            /\ pc \in { "DescConsent", "CoverConsent" }
            /\ pc = "DescConsent" => SelectedGame.description = ""
            /\ pc = "CoverConsent" => SelectedGame.cover_art_file = <<>>
        /\ (pc \in { "DescConsent", "CoverConsent" } /\ pc' = "Details") =>
            /\ ~EnrichmentCalled
            /\ UNCHANGED <<pc_games_list, selected_game_index, storage>>
      ]_vars

\* the cover art was downloaded, the game was renamed, and then the stored
\* cover art was viewed from the Details menu
C19_Witness ==
    /\ pc = "CoverDisplay"
    /\ last = "edit_title_pc"
    /\ SelectedGame.cover_art_file # <<>>
    /\ storage = Pickled(pc_games_list)

\* C20: a call of the description service or of the image service that fails
\* does not end the process.
C20_EnrichmentFailureIsNotFatal ==
    ~(pc = "Crashed" /\ error \in { "ConnectionError", "RequestException" })

\* C21: a cover-art attempt in which a request raises, or in which the body
\* of an error response is written to the image file, stores no cover-art
\* path: the list and the saved file stay as they were.
C21_FailedCoverArtStoresNothing ==
    [][ ( /\ pc = "CoverConsent"
          /\ \/ error' = "RequestException"
             \/ \E f \in image_files' \ image_files : f.content = "error body" ) =>
          /\ pc_games_list' = pc_games_list
          /\ storage' = storage ]_vars

\* "./images/" and ".png"
ImagesPrefix == << 46, 47, 105, 109, 97, 103, 101, 115, 47 >>
PngSuffix == << 46, 112, 110, 103 >>

\* "./images/Red_Dead_Redemption_2.png"
RedDeadPath ==
    << 46, 47, 105, 109, 97, 103, 101, 115, 47,
       82, 101, 100, 95, 68, 101, 97, 100, 95, 82, 101, 100, 101, 109, 112, 116,
       105, 111, 110, 95, 50,
       46, 112, 110, 103 >>

\* path is "./images/", then title with '_' for every space, then ".png"
IsCoverPathOf(path, title) ==
    /\ Len(path) = Len(ImagesPrefix) + Len(title) + Len(PngSuffix)
    /\ \A k \in 1..Len(ImagesPrefix) : path[k] = ImagesPrefix[k]
    /\ \A k \in 1..Len(title) :
          path[Len(ImagesPrefix) + k] = IF title[k] = 32 THEN 95 ELSE title[k]
    /\ \A k \in 1..Len(PngSuffix) :
          path[Len(ImagesPrefix) + Len(title) + k] = PngSuffix[k]

\* C22: a cover-art attempt that writes an image for the selected record with
\* title T writes it to "./images/" + T with '_' for every space + ".png",
\* and that path is the record's cover-art path after the step; for
\* "Red Dead Redemption 2" it is "./images/Red_Dead_Redemption_2.png".
C22_CoverPathOfTitle ==
    [][ ( /\ pc = "CoverConsent"
          /\ \E f \in image_files' \ image_files : f.content = "image" ) =>
          LET title == SelectedGame.title
              path == pc_games_list'[SelectedPos].cover_art_file
          IN  /\ IsCoverPathOf(path, title)
              /\ [path |-> path, content |-> "image"] \in image_files'
              /\ pc_games_list' = [pc_games_list EXCEPT ![SelectedPos].cover_art_file = path]
              /\ title = RedDeadTitle => path = RedDeadPath ]_vars

\* the cover art of "Red Dead Redemption 2" was downloaded and saved
C22_Witness ==
    /\ pc = "CoverDisplay"
    /\ last = "view_cover_art_pc"
    /\ pc_games_list[1].title = RedDeadTitle
    /\ pc_games_list[1].cover_art_file = RedDeadPath
    /\ [path |-> RedDeadPath, content |-> "image"] \in image_files
    /\ storage = Pickled(pc_games_list)

\* the list holds what the file holds: nothing when there is no file, and
\* otherwise the saved records, field by field and in the saved order
LibraryAsInFile ==
    /\ storage.state = "absent" => pc_games_list = <<>>
    /\ storage.state = "saved" =>
          /\ Len(pc_games_list) = Len(storage.data)
          /\ \A k \in Games :
                << pc_games_list[k].title, pc_games_list[k].source,
                   pc_games_list[k].application_path,
                   pc_games_list[k].last_played_date,
                   pc_games_list[k].description,
                   pc_games_list[k].cover_art_file,
                   pc_games_list[k].alternate_configs >> = storage.data[k]

\* C23: the program starts at the main menu with no error and nothing
\* selected, with an empty library when there is no file and with the saved
\* records in the saved order when there is one; and the library stays what
\* the start-up made of the file until a method changes it.
C23_StartUp ==
    /\ pc = "MainMenu"
    /\ error = "none"
    /\ selected_game_index = NoSelection
    /\ LibraryAsInFile
    /\ [](last = "__init__" => LibraryAsInFile)

\* started without a file: the main menu over an empty library
C23_Witness ==
    /\ storage.state = "absent"
    /\ last = "__init__"
    /\ pc = "MainMenu"
    /\ pc_games_list = <<>>
    /\ selected_game_index = NoSelection
    /\ num_adds = 0

\* C24: a save that fails does not end the process: the process never ends
\* on an OSError with a list that a method has changed and that the file
\* does not hold.
C24_SaveFailureIsSurfaced ==
    ~( /\ pc = "Crashed"
       /\ error = "OSError"
       /\ last # "__init__"
       /\ storage # Pickled(pc_games_list) )

\* C25: the process exits only from the main menu, without an error, and the
\* step that exits changes neither the list nor the file nor anything else
\* the program keeps; after the exit no step is taken; and at the main menu
\* the exit can always be taken.
C25_ExitIsTerminal ==
    /\ [][ /\ pc' = "Exit" =>
                /\ pc = "MainMenu"
                /\ error' = "none"
                /\ UNCHANGED <<pc_games_list, storage, selected_game_index,
                               image_files, launched>>
            /\ pc # "Exit" ]_vars
    /\ [](pc = "MainMenu" => ENABLED (top_level_menu /\ pc' = "Exit"))

\* the program was left through the main menu after a game had been added
\* and saved
C25_Witness ==
    /\ pc = "Exit"
    /\ error = "none"
    /\ last = "new_pc_game"
    /\ Len(pc_games_list) = 1
    /\ storage = Pickled(pc_games_list)

\* C26: a step of the menu that edits an alternate configuration, or of the
\* prompt that confirms its deletion, changes the list only when the index
\* of the configuration is in 0..len-1.
C26_ConfigChangeOnlyInRange ==
    [][ ( /\ pc \in { "AltEditMenu", "AltDelConfirm" }
          /\ pc_games_list' # pc_games_list ) =>
          config_index \in 0..(Len(SelectedGame.alternate_configs) - 1) ]_vars

\* C27: no token ends the session by making every menu method return.  The
\* main menu and the add-game menu are left out: there the tokens for the
\* console games, which are recognized, have that effect as well.
C27_UnrecognizedTokenRePrompts ==
    [][ (pc \in Prompts \ { "MainMenu", "AddGameMenu" }) => pc' # "Returned" ]_vars

\* the menus the Details menu leads to: the go-back menu after a launch, the
\* basic information or a stored description; the alternate configurations;
\* the consent prompt for a description; the cover-art menu or the consent
\* prompt for a cover art; the edit menu; the delete confirmation; the PC list
DetailsSuccessors ==
    { "GoBack", "AltList", "DescConsent", "CoverDisplay", "CoverConsent",
      "EditMenu", "DeleteConfirm", "PCList" }

\* C28: a step of the Details menu leads to one of the menus of the graph
\* and to the one of its token: '1' to the go-back menu after the launch, '2'
\* to the alternate configurations, '3' to the go-back menu, '4' to the
\* description (go-back menu or consent prompt), '5' to the cover art
\* (cover-art menu or consent prompt), '6' to the edit menu, '7' to the
\* delete confirmation and '8' to the PC list; a step of the main menu leads
\* to the PC list, the console list, the add-game menu or the exit, by
\* tokens '1', '2', '3' and '4'.
C28_TransitionGraph ==
    [][ /\ (pc = "Details" /\ today' = today) =>
            /\ pc' \in DetailsSuccessors
            /\ run_default_config_pc => pc' = "GoBack"
            /\ DetailsChoice("2") => pc' = "AltList"
            /\ DetailsChoice("3") => pc' = "GoBack"
            /\ DetailsChoice("4") => pc' \in { "GoBack", "DescConsent" }
            /\ DetailsChoice("5") => pc' \in { "CoverDisplay", "CoverConsent" }
            /\ DetailsChoice("6") => pc' = "EditMenu"
            /\ DetailsChoice("7") => pc' = "DeleteConfirm"
            /\ DetailsChoice("8") => pc' = "PCList"
        /\ (pc = "MainMenu" /\ today' = today) =>
            /\ pc' \in { "PCList", "ConsoleList", "AddGameMenu", "Exit" }
            /\ TopLevelChoice("1") => pc' = "PCList"
            /\ TopLevelChoice("2") => pc' = "ConsoleList"
            /\ TopLevelChoice("3") => pc' = "AddGameMenu"
            /\ TopLevelChoice("4") => pc' = "Exit" ]_vars

\* C29: a step of the edit menu that changes the list keeps the number and
\* the places of the records, leaves every record but the selected one as it
\* was, and changes one field of the selected record, which is its title,
\* its source or its application path.
C29_EditChangesOneField ==
    [][ (pc = "EditMenu" /\ pc_games_list' # pc_games_list) =>
          /\ Len(pc_games_list') = Len(pc_games_list)
          /\ \A i \in Games \ { SelectedPos } : pc_games_list'[i] = pc_games_list[i]
          /\ LET old == pc_games_list[SelectedPos]
                 new == pc_games_list'[SelectedPos]
             IN  \E field \in { "title", "source", "application_path" } :
                    new = [old EXCEPT ![field] = new[field]] ]_vars

\* the first of two games was given a title that sorts after the second
\* one's, and the list is out of title order
C29_Witness ==
    /\ pc = "EditMenu"
    /\ last = "edit_title_pc"
    /\ Len(pc_games_list) = 2
    /\ SelectedPos = 1
    /\ ~IsSortedByTitle(pc_games_list)
    /\ storage = Pickled(pc_games_list)

\* C30: the command spawned by a launch from the Details menu is the
\* application path of the selected record, and the command spawned by
\* choosing number k of the listed alternate configurations is the path of
\* configuration k of the selected record (k counted from 1).
C30_LaunchesStoredPath ==
    [][ launched' # launched =>
          LET raw_string == launched'[Len(launched')]
              configs == SelectedGame.alternate_configs
          IN  /\ pc = "Details" => raw_string = SelectedGame.application_path
              /\ pc = "AltList" =>
                    \A choice_string \in IntTokens :
                        ( /\ ToInt(choice_string) \in 1..Len(configs)
                          /\ RunAlternateChoice(choice_string) ) =>
                            raw_string = configs[ToInt(choice_string)].path ]_vars

\* the application path was changed to p2 while configuration #1 kept p1,
\* and the default launch spawned p2
C30_Witness ==
    /\ pc = "GoBack"
    /\ last = "run_default_config_pc"
    /\ launched = << "p2" >>
    /\ SelectedGame.application_path = "p2"
    /\ SelectedGame.alternate_configs[1].path = "p1"

\* C31: launches are fire-and-forget.  A step that spawns a command leaves
\* the program it spawned running and the status of every earlier program as
\* it was, and unless its save fails it ends at the go-back menu; no step of
\* a menu method changes the status of a program, and a program that ends
\* changes nothing the organizer keeps; and whatever programs are running or
\* have ended, the go-back menu takes each of its three tokens and every
\* menu takes a token.
C31_LaunchIsFireAndForget ==
    /\ [][ launched' # launched =>
              /\ exited' = exited
              /\ Len(launched') \notin exited'
              /\ pc \in { "Details", "AltList" }
              /\ pc' \in { "GoBack", "Crashed" }
              /\ pc' = "Crashed" => error' = "OSError" ]_vars
    /\ [][ exited' # exited =>
              /\ launched' = launched
              /\ UNCHANGED <<pc, error, pc_games_list, storage, selected_game_index,
                             config_index, image_files>> ]_vars
    /\ [](exited \subseteq 1..Len(launched))
    /\ [](pc = "GoBack" =>
              \A menu \in { "Details", "PCList", "MainMenu" } :
                  ENABLED (go_back_menu_pc /\ pc' = menu))
    /\ [](pc \in Prompts => ENABLED MenuStep)

\* the game was launched twice, by its default path and by a configuration;
\* both programs are still running and the organizer is back at the details
C31_Witness ==
    /\ pc = "Details"
    /\ last = "run_alternate_config_pc"
    /\ Len(launched) = 2
    /\ exited = {}

\* C32: declining a confirmation changes nothing.  The answer 'N' or 'n' to
\* the delete confirmation of a game shows the Details menu of that game
\* again, and to the delete confirmation of an alternate configuration the
\* list of configurations, with the list of games, the selection, the file,
\* the image files and the spawned commands as they were; and both
\* confirmations take that answer whenever they are shown (the property is
\* about every step the answer allows).
C32_DecliningChangesNothing ==
    /\ pc = "DeleteConfirm" =>
          \A choice_string \in { "N", "n" } :
              /\ ENABLED DeleteChoice(choice_string)
              /\ ~ENABLED ( /\ DeleteChoice(choice_string)
                            /\ ~( /\ pc' = "Details"
                                  /\ error' = "none"
                                  /\ UNCHANGED <<pc_games_list, selected_game_index,
                                                 storage, image_files, launched,
                                                 last>> ) )
    /\ pc = "AltDelConfirm" =>
          \A choice_string \in { "N", "n" } :
              /\ ENABLED DeleteConfigChoice(choice_string)
              /\ ~ENABLED ( /\ DeleteConfigChoice(choice_string)
                            /\ ~( /\ pc' = "AltList"
                                  /\ error' = "none"
                                  /\ UNCHANGED <<pc_games_list, selected_game_index,
                                                 storage, image_files, launched,
                                                 last>> ) )

\* the delete confirmation of the second configuration of the second of two
\* games is waiting for its answer
C32_Witness ==
    /\ pc = "AltDelConfirm"
    /\ Len(pc_games_list) = 2
    /\ SelectedPos = 2
    /\ config_index = 1
    /\ Len(SelectedGame.alternate_configs) = 2
    /\ storage = Pickled(pc_games_list)

\* C33: the selection is stable inside the Details region.  A step from a
\* menu that shows the selected game (Details, the edit menu, the go-back
\* menu, the configuration menus, the description and cover-art prompts, the
\* delete confirmation) to a menu that shows the selected game leaves the
\* selected index as it is, the list as long as it is and every record but
\* the selected one where it is and as it is: the index keeps denoting the
\* record it denoted.
C33_SelectionStableInDetails ==
    [][ (ShowsGame(pc) /\ ShowsGame(pc')) =>
          /\ selected_game_index' = selected_game_index
          /\ Len(pc_games_list') = Len(pc_games_list)
          /\ \A i \in Games \ { SelectedPos } : pc_games_list'[i] = pc_games_list[i]
      ]_vars

\* the second of two games was renamed so that its title sorts before the
\* first one's; it is still the second game and still the selected one
C33_Witness ==
    /\ pc = "Details"
    /\ last = "edit_title_pc"
    /\ Len(pc_games_list) = 2
    /\ SelectedPos = 2
    /\ ~IsSortedByTitle(pc_games_list)

\* C34: a launch whose spawn fails stamps nothing and saves nothing.  A step
\* of the default launch or of the launch of an alternate configuration that
\* spawns no command ends the process and leaves the list of games, with
\* every last played date, the file and the selection exactly as they were;
\* from the Details menu the only step that ends in an exception is such a
\* failed spawn; and the spawn can fail whenever the Details menu or the
\* list of configurations is shown.
C34_FailedSpawnChangesNothing ==
    /\ pc = "Details" =>
          /\ ENABLED (run_default_config_pc /\ launched' = launched)
          /\ ~ENABLED ( /\ run_default_config_pc
                        /\ launched' = launched
                        /\ ~( /\ pc' = "Crashed" /\ error' = "OSError"
                              /\ UNCHANGED <<pc_games_list, storage,
                                             selected_game_index, last, num_changes>> ) )
          /\ ~ENABLED ( /\ Next
                        /\ pc' = "Crashed" /\ launched' = launched
                        /\ ~( /\ error' = "OSError"
                              /\ UNCHANGED <<pc_games_list, storage,
                                             selected_game_index>> ) )
    /\ pc = "AltList" =>
          /\ ENABLED (run_alternate_config_pc /\ launched' = launched)
          /\ ~ENABLED ( /\ run_alternate_config_pc
                        /\ launched' = launched
                        /\ ~( /\ pc' = "Crashed"
                              /\ error' \in { "OSError", "IndexError" }
                              /\ UNCHANGED <<pc_games_list, storage,
                                             selected_game_index, last, num_changes>> ) )

\* the spawn of the second of two games failed: nothing was ever changed,
\* no game has a date and the file is the one found at start-up
C34_Witness ==
    /\ pc = "Crashed"
    /\ error = "OSError"
    /\ last = "__init__"
    /\ launched = <<>>
    /\ Len(pc_games_list) = 2
    /\ SelectedPos = 2
    /\ \A i \in Games : pc_games_list[i].last_played_date = ""
    /\ storage = TwoGamesFile

\* the menus whose if-chain has no else-branch
FixedMenus ==
    { "MainMenu", "AddGameMenu", "Details", "EditMenu", "GoBack", "AltEditMenu",
      "CoverDisplay", "DeleteConfirm", "AltDelConfirm", "DescConsent",
      "CoverConsent" }

\* the tokens some branch of the menu's if-chain compares equal to
Recognized(menu) ==
    CASE menu = "MainMenu" -> { "1", "2", "3", "4" }
      [] menu \in { "AddGameMenu", "GoBack", "AltEditMenu" } -> { "1", "2", "3" }
      [] menu = "Details" -> { "1", "2", "3", "4", "5", "6", "7", "8" }
      [] menu = "EditMenu" -> { "1", "2", "3", "4" }
      [] menu = "CoverDisplay" -> { "1", "2" }
      [] OTHER -> { "Y", "y", "N", "n" }

\* what the menu does with a token that is not one of those
ChoiceAt(menu, choice_string) ==
    CASE menu = "MainMenu" -> TopLevelChoice(choice_string)
      [] menu = "AddGameMenu" -> AddGameChoice(choice_string)
      [] menu = "Details" -> DetailsChoice(choice_string)
      [] menu = "EditMenu" -> EditChoice(choice_string)
      [] menu = "GoBack" -> GoBackChoice(choice_string)
      [] menu = "AltEditMenu" -> EditConfigChoice(choice_string)
      [] menu = "CoverDisplay" -> CoverDisplayChoice(choice_string)
      [] menu = "DeleteConfirm" -> DeleteChoice(choice_string)
      [] menu = "AltDelConfirm" -> DeleteConfigChoice(choice_string)
      [] menu = "DescConsent" -> DescriptionChoice(choice_string)
      [] menu = "CoverConsent" -> CoverArtChoice(choice_string)

\* the step ends the session normally and changes nothing that is kept
EndsSession ==
    /\ pc' = "Returned"
    /\ error' = "none"
    /\ UNCHANGED <<pc_games_list, selected_game_index, storage, image_files,
                   launched, last>>

\* C35: at a menu with a fixed set of choices every token outside the set is
\* taken, and every step it allows ends the session normally with the list
\* of games, the selection, the file, the image files and the spawned
\* commands as they were; after that the program takes no step: no prompt
\* is shown again.
C35_UnrecognizedTokenEndsSession ==
    /\ pc \in FixedMenus =>
          \A choice_string \in Tokens \ Recognized(pc) :
              /\ ENABLED ChoiceAt(pc, choice_string)
              /\ ~ENABLED (ChoiceAt(pc, choice_string) /\ ~EndsSession)
    /\ pc = "Returned" => ~ENABLED Next

\* the session has ended normally while the second of two games was
\* selected and after that game was changed: the token was typed at one of
\* the menus of that game
C35_Witness ==
    /\ pc = "Returned"
    /\ error = "none"
    /\ Len(pc_games_list) = 2
    /\ selected_game_index = 1
    /\ num_changes = 1
    /\ storage = Pickled(pc_games_list)

====
